---------------------------- MODULE Spec2Model ----------------------------
(***************************************************************************)
(* A model of level_replay/level_sampler.py (class LevelSampler): the      *)
(* score ledger (seed_scores, unseen_seed_weights, partial accumulators,   *)
(* seed_staleness), update_with_rollouts / after_update, the weight        *)
(* transforms and the replay scheduler sample().                           *)
(*                                                                         *)
(* Numbers.  A float is modelled as an exact extended rational <<n, d>>:   *)
(* d > 0 is the finite value n/d in lowest terms, <<1,0>> is +inf,         *)
(* <<-1,0>> is -inf and <<0,0>> is NaN, with IEEE-754 rules for the        *)
(* non-finite values.  Rounding error is not modelled.                     *)
(***************************************************************************)
EXTENDS Integers, Sequences, FiniteSets, TLC

\* ------------------------------------------------------------- bounds
\* Number of seeds in the pool handed to __init__ (len(seeds)).
NumSeeds == 2
\* Number of time steps of a rollout batch (policy_logits.shape[0]).
TotalSteps == 2
\* Number of calls made on one sampler object in one behaviour.
MaxCalls == 3

\* ------------------------------------------------- extended rationals
NaN == <<0, 0>>
PosInf == <<1, 0>>
NegInf == <<-1, 0>>

Abs(i) == IF i < 0 THEN -i ELSE i
Sgn(i) == IF i < 0 THEN -1 ELSE IF i > 0 THEN 1 ELSE 0

RECURSIVE GCD(_, _)
GCD(a, b) == IF b = 0 THEN a ELSE GCD(b, a % b)

\* The rational n/d (d # 0) in lowest terms with a positive denominator.
Q(n, d) ==
  LET g == GCD(Abs(n), Abs(d))
  IN  <<Sgn(d) * (n \div g), Abs(d) \div g>>

Zero == <<0, 1>>
One == <<1, 1>>
Int2F(i) == <<i, 1>>

IsNaN(x) == x = NaN
IsFinite(x) == x[2] > 0
IsZero(x) == x = Zero

Neg(x) == <<-x[1], x[2]>>

Add(x, y) ==
  IF IsNaN(x) \/ IsNaN(y) THEN NaN
  ELSE IF ~IsFinite(x) /\ ~IsFinite(y) THEN (IF x = y THEN x ELSE NaN)
  ELSE IF ~IsFinite(x) THEN x
  ELSE IF ~IsFinite(y) THEN y
  ELSE Q(x[1] * y[2] + y[1] * x[2], x[2] * y[2])

Sub(x, y) == Add(x, Neg(y))

Mul(x, y) ==
  IF IsNaN(x) \/ IsNaN(y) THEN NaN
  ELSE IF ~IsFinite(x) \/ ~IsFinite(y)
       THEN (IF x[1] = 0 \/ y[1] = 0 THEN NaN ELSE <<Sgn(x[1]) * Sgn(y[1]), 0>>)
  ELSE Q(x[1] * y[1], x[2] * y[2])

\* numpy float64 division: x/0 is +-inf or NaN (a warning, not an exception).
Div(x, y) ==
  IF IsNaN(x) \/ IsNaN(y) THEN NaN
  ELSE IF ~IsFinite(x) /\ ~IsFinite(y) THEN NaN
  ELSE IF ~IsFinite(x) THEN <<Sgn(x[1]) * (IF y[1] < 0 THEN -1 ELSE 1), 0>>
  ELSE IF ~IsFinite(y) THEN Zero
  ELSE IF y[1] = 0 THEN (IF x[1] = 0 THEN NaN ELSE <<Sgn(x[1]), 0>>)
  ELSE Q(x[1] * y[2], x[2] * y[1])

\* x < y; false when either is NaN.
Lt(x, y) ==
  IF IsNaN(x) \/ IsNaN(y) THEN FALSE
  ELSE IF ~IsFinite(x) /\ ~IsFinite(y) THEN x[1] < y[1]
  ELSE IF ~IsFinite(x) THEN x[1] < 0
  ELSE IF ~IsFinite(y) THEN y[1] > 0
  ELSE x[1] * y[2] < y[1] * x[2]

Gt(x, y) == Lt(y, x)
\* x >= y; false when either is NaN.
Geq(x, y) == ~IsNaN(x) /\ ~IsNaN(y) /\ ~Lt(x, y)
\* x == y as floats; NaN equals nothing.
Feq(x, y) == ~IsNaN(x) /\ ~IsNaN(y) /\ x = y

AbsF(x) == <<Abs(x[1]), x[2]>>

\* np.isclose(a, b) with the default rtol = 1e-5, atol = 1e-8:
\* |a - b| <= atol + rtol * |b|; equal infinities are close, NaN is close to
\* nothing.  For finite a # b with |a - b| = p/q and |b| = bn/bd the test is
\* 10^8 * p * bd <= q * (bd + 1000 * bn), evaluated as a quotient.
IsClose(a, b) ==
  IF IsNaN(a) \/ IsNaN(b) THEN FALSE
  ELSE IF ~IsFinite(a) \/ ~IsFinite(b) THEN a = b
  ELSE IF a = b THEN TRUE
  ELSE LET diff == AbsF(Sub(a, b))
           bb == AbsF(b)
       IN  ((bb[2] + 1000 * bb[1]) * diff[2]) \div (bb[2] * diff[1]) >= 100000000

\* ------------------------------------------------------------ vectors
SeedIdx == 0 .. (NumSeeds - 1)
Steps == 0 .. (TotalSteps - 1)

RECURSIVE SumUpTo(_, _)
\* v[0] + ... + v[k] over extended rationals.
SumUpTo(v, k) == IF k < 0 THEN Zero ELSE Add(SumUpTo(v, k - 1), v[k])
\* np.sum(v) of a vector indexed by the seeds.
NpSum(v) == SumUpTo(v, NumSeeds - 1)

RECURSIVE MaxUpTo(_, _)
\* np.max: NaN when any entry is NaN.
MaxUpTo(v, k) ==
  IF k = 0 THEN v[0]
  ELSE LET m == MaxUpTo(v, k - 1)
       IN  IF IsNaN(m) \/ IsNaN(v[k]) THEN NaN
           ELSE IF Lt(m, v[k]) THEN v[k] ELSE m
NpMax(v) == MaxUpTo(v, NumSeeds - 1)

\* np.argmax: the first index of the maximum; the first NaN when there is one.
NpArgmax(v) ==
  IF \E i \in SeedIdx : IsNaN(v[i])
  THEN CHOOSE i \in SeedIdx : IsNaN(v[i]) /\ \A j \in SeedIdx : j < i => ~IsNaN(v[j])
  ELSE CHOOSE i \in SeedIdx : v[i] = NpMax(v) /\ \A j \in SeedIdx : j < i => v[j] # NpMax(v)

\* ------------------------------------------------------ seed registry
\* _init_seed_index: the pool of seed identifiers and its inverse.
seeds == [i \in SeedIdx |-> 100 + 7 * i]
SeedIds == {seeds[i] : i \in SeedIdx}
seed2index == [s \in SeedIds |-> CHOOSE i \in SeedIdx : seeds[i] = s]

\* -------------------------------------------------------------- state
VARIABLES
  \* constructor arguments, fixed for the life of the object
  num_actors, strategy, replay_schedule, score_transform, staleness_coef,
  staleness_transform, alpha, rho, nu,
  \* the ledger
  unseen_seed_weights, seed_scores, partial_seed_scores, partial_seed_steps,
  seed_staleness, next_seed_index,
  \* instrumentation: the last call and what it returned, the ledger calls it
  \* made, the number of calls so far, and which seeds were ever scored
  last, log, ncalls, ever_done, ever_flushed

config == <<num_actors, strategy, replay_schedule, score_transform, staleness_coef,
            staleness_transform, alpha, rho, nu>>
ledger == <<unseen_seed_weights, seed_scores, partial_seed_scores,
            partial_seed_steps, seed_staleness, next_seed_index>>
vars == <<config, ledger, last, log, ncalls, ever_done, ever_flushed>>

\* temperature = 1.0 and staleness_temperature = 1.0 (the defaults): every
\* exponent 1/temperature is 1.  eps = 0.05.
eps == Q(1, 20)
\* The floor 1e-3 the power transform adds when staleness weighting is off.
PowerEps == Q(1, 1000)

\* The object as one record; the operators below take it and return it changed.
Self ==
  [num_actors |-> num_actors,
   strategy |-> strategy, replay_schedule |-> replay_schedule,
   score_transform |-> score_transform, staleness_coef |-> staleness_coef,
   staleness_transform |-> staleness_transform, alpha |-> alpha,
   rho |-> rho, nu |-> nu,
   unseen_seed_weights |-> unseen_seed_weights, seed_scores |-> seed_scores,
   partial_seed_scores |-> partial_seed_scores,
   partial_seed_steps |-> partial_seed_steps,
   seed_staleness |-> seed_staleness, next_seed_index |-> next_seed_index,
   log |-> <<>>]

\* ------------------------------------------------- score update / merge
\* A faulty variant of MergedScore: the new segment weighted by the pending step count.
MergedScoreByPendingSteps(partial_score, partial_num_steps, score, num_steps) ==
  Add(partial_score,
      Div(Mul(Sub(score, partial_score), Int2F(partial_num_steps)),
          Int2F(partial_num_steps + num_steps)))

\* The merge of a pending partial (partial_score over partial_num_steps steps)
\* with a new segment (score over num_steps steps).
MergedScore(partial_score, partial_num_steps, score, num_steps) ==
  Add(partial_score,
      Div(Mul(Sub(score, partial_score), Int2F(num_steps)),
          Int2F(partial_num_steps + num_steps)))

\* A faulty variant of _partial_update_seed_score: one accumulator row shared
\* by all actors.
_partial_update_seed_score_shared_row(self, actor_index, seed_idx, score, num_steps, done) ==
  LET partial_score == self.partial_seed_scores[0][seed_idx]
      partial_num_steps == self.partial_seed_steps[0][seed_idx]
      running_num_steps == partial_num_steps + num_steps
      merged_score == MergedScore(partial_score, partial_num_steps, score, num_steps)
      entry == [fn |-> IF done THEN "update_seed_score" ELSE "_partial_update_seed_score",
                actor_index |-> actor_index, seed_idx |-> seed_idx,
                score |-> score, num_steps |-> num_steps, merged_score |-> merged_score]
  IN  [self |->
         [self EXCEPT
            !.partial_seed_scores[0][seed_idx] =
                IF done THEN Zero ELSE merged_score,
            !.partial_seed_steps[0][seed_idx] =
                IF done THEN 0 ELSE running_num_steps,
            !.log = Append(@, entry)],
       merged_score |-> merged_score]

\* A faulty variant of _partial_update_seed_score: a partial update marks the
\* seed as seen.
_partial_update_seed_score_marks_seen(self, actor_index, seed_idx, score, num_steps, done) ==
  LET partial_score == self.partial_seed_scores[actor_index][seed_idx]
      partial_num_steps == self.partial_seed_steps[actor_index][seed_idx]
      running_num_steps == partial_num_steps + num_steps
      merged_score == MergedScore(partial_score, partial_num_steps, score, num_steps)
      entry == [fn |-> IF done THEN "update_seed_score" ELSE "_partial_update_seed_score",
                actor_index |-> actor_index, seed_idx |-> seed_idx,
                score |-> score, num_steps |-> num_steps, merged_score |-> merged_score]
  IN  [self |->
         [self EXCEPT
            !.unseen_seed_weights[seed_idx] = 0,
            !.partial_seed_scores[actor_index][seed_idx] =
                IF done THEN Zero ELSE merged_score,
            !.partial_seed_steps[actor_index][seed_idx] =
                IF done THEN 0 ELSE running_num_steps,
            !.log = Append(@, entry)],
       merged_score |-> merged_score]

\* _partial_update_seed_score: returns the object and the merged score.
_partial_update_seed_score(self, actor_index, seed_idx, score, num_steps, done) ==
  LET partial_score == self.partial_seed_scores[actor_index][seed_idx]
      partial_num_steps == self.partial_seed_steps[actor_index][seed_idx]
      running_num_steps == partial_num_steps + num_steps
      merged_score == MergedScore(partial_score, partial_num_steps, score, num_steps)
      entry == [fn |-> IF done THEN "update_seed_score" ELSE "_partial_update_seed_score",
                actor_index |-> actor_index, seed_idx |-> seed_idx,
                score |-> score, num_steps |-> num_steps, merged_score |-> merged_score]
  IN  [self |->
         [self EXCEPT
            !.partial_seed_scores[actor_index][seed_idx] =
                IF done THEN Zero ELSE merged_score,
            !.partial_seed_steps[actor_index][seed_idx] =
                IF done THEN 0 ELSE running_num_steps,
            !.log = Append(@, entry)],
       merged_score |-> merged_score]

\* A faulty variant of update_seed_score: the seed is left unseen.
update_seed_score_keeps_unseen(self, actor_index, seed_idx, score, num_steps) ==
  LET r == _partial_update_seed_score(self, actor_index, seed_idx, score, num_steps, TRUE)
      old_score == r.self.seed_scores[seed_idx]
  IN  [r.self EXCEPT
         !.seed_scores[seed_idx] =
             Add(Mul(Sub(One, self.alpha), old_score), Mul(self.alpha, r.merged_score))]

\* update_seed_score: the completed-episode update.
update_seed_score(self, actor_index, seed_idx, score, num_steps) ==
  LET r == _partial_update_seed_score(self, actor_index, seed_idx, score, num_steps, TRUE)
      old_score == r.self.seed_scores[seed_idx]
  IN  [r.self EXCEPT
         !.unseen_seed_weights[seed_idx] = 0,
         !.seed_scores[seed_idx] =
             Add(Mul(Sub(One, self.alpha), old_score), Mul(self.alpha, r.merged_score))]

\* ---------------------------------------------------- score functions
\* A batch gives, per step and actor, the per-step quantity the configured
\* score function averages over a segment (for value_l1 and gae the advantage
\* returns - value_preds, for the logit strategies the per-step entropy,
\* 1 - confidence or 1 - margin).  The segment is the steps from .. to-1.
RECURSIVE SignalSum(_, _, _, _)
SignalSum(signal, actor_index, from, to) ==
  IF from >= to THEN 0
  ELSE signal[from][actor_index] + SignalSum(signal, actor_index, from + 1, to)

\* tensor.mean().item() over the segment; the mean of an empty tensor is NaN.
SegmentMean(signal, actor_index, from, to) ==
  IF to <= from THEN NaN
  ELSE Q(SignalSum(signal, actor_index, from, to), to - from)

RECURSIVE AbsSignalSum(_, _, _, _)
AbsSignalSum(signal, actor_index, from, to) ==
  IF from >= to THEN 0
  ELSE Abs(signal[from][actor_index]) + AbsSignalSum(signal, actor_index, from + 1, to)

\* _one_step_td_error with rewards 0: the mean of |v[t] - v[t+1]| over the
\* consecutive pairs of the segment, NaN for a segment of one step.
RECURSIVE TdSum(_, _, _, _)
TdSum(signal, actor_index, from, to) ==
  IF from + 1 >= to THEN 0
  ELSE Abs(signal[from][actor_index] - signal[from + 1][actor_index])
       + TdSum(signal, actor_index, from + 1, to)

ScoreStrategies ==
  {"policy_entropy", "least_confidence", "min_margin", "gae", "value_l1",
   "one_step_td_error"}

\* The score_function update_with_rollouts selects, applied to one segment.
score_function(strat, rollouts, actor_index, from, to) ==
  CASE strat = "value_l1" ->
         IF to <= from THEN NaN
         ELSE Q(AbsSignalSum(rollouts.signal, actor_index, from, to), to - from)
    [] strat = "one_step_td_error" ->
         IF to - from < 2 THEN NaN
         ELSE Q(TdSum(rollouts.signal, actor_index, from, to), to - from - 1)
    [] OTHER -> SegmentMean(rollouts.signal, actor_index, from, to)

\* ------------------------------------------------ update_with_rollouts
\* done = ~(rollouts.masks > 0)
Done(rollouts, t, actor_index) == ~(rollouts.masks[t][actor_index] > 0)

\* A faulty variant of ActorLoop: a done step at offset 0 is not skipped, it
\* closes a segment of no steps.
RECURSIVE ActorLoopNoSkip(_, _, _, _, _)
ActorLoopNoSkip(self, rollouts, actor_index, t, start_t) ==
  LET total_steps == rollouts.shape[1]
  IN  IF t >= total_steps \/ ~(start_t < total_steps)
      THEN IF start_t < total_steps
           THEN LET seed_t == rollouts.level_seeds[start_t][actor_index]
                    seed_idx_t == seed2index[seed_t]
                    score == score_function(self.strategy, rollouts, actor_index,
                                            start_t, total_steps)
                    num_steps == total_steps - start_t
                IN  _partial_update_seed_score(self, actor_index, seed_idx_t, score,
                                               num_steps, FALSE).self
           ELSE self
      ELSE IF ~Done(rollouts, t, actor_index)
           THEN ActorLoopNoSkip(self, rollouts, actor_index, t + 1, start_t)
           ELSE LET seed_t == rollouts.level_seeds[start_t][actor_index]
                    seed_idx_t == seed2index[seed_t]
                    score == score_function(self.strategy, rollouts, actor_index,
                                            start_t, t)
                    num_steps == t - start_t
                IN  ActorLoopNoSkip(update_seed_score(self, actor_index, seed_idx_t,
                                                      score, num_steps),
                                    rollouts, actor_index, t + 1, t)

\* The loop over done_steps of one actor, from step t on, with the segment
\* start start_t; then the trailing partial update.  total_steps and num_actors
\* are the batch's (policy_logits.shape[:2]).
RECURSIVE ActorLoop(_, _, _, _, _)
ActorLoop(self, rollouts, actor_index, t, start_t) ==
  LET total_steps == rollouts.shape[1]
  IN  IF t >= total_steps \/ ~(start_t < total_steps)
      THEN IF start_t < total_steps
           THEN LET seed_t == rollouts.level_seeds[start_t][actor_index]
                    seed_idx_t == seed2index[seed_t]
                    score == score_function(self.strategy, rollouts, actor_index,
                                            start_t, total_steps)
                    num_steps == total_steps - start_t
                IN  _partial_update_seed_score(self, actor_index, seed_idx_t, score,
                                               num_steps, FALSE).self
           ELSE self
      ELSE IF ~Done(rollouts, t, actor_index) \/ t = 0
           THEN ActorLoop(self, rollouts, actor_index, t + 1, start_t)
           ELSE LET seed_t == rollouts.level_seeds[start_t][actor_index]
                    seed_idx_t == seed2index[seed_t]
                    score == score_function(self.strategy, rollouts, actor_index,
                                            start_t, t)
                    num_steps == t - start_t
                IN  ActorLoop(update_seed_score(self, actor_index, seed_idx_t, score,
                                                num_steps),
                              rollouts, actor_index, t + 1, t)

RECURSIVE _update_with_rollouts_from(_, _, _)
_update_with_rollouts_from(self, rollouts, actor_index) ==
  IF actor_index >= rollouts.shape[2] THEN self
  ELSE _update_with_rollouts_from(ActorLoop(self, rollouts, actor_index, 0, 0),
                                  rollouts, actor_index + 1)

_update_with_rollouts(self, rollouts) == _update_with_rollouts_from(self, rollouts, 0)

\* A faulty variant of update_with_rollouts: a strategy that is not supported
\* is scored like the others instead of being refused.
update_with_rollouts_any_strategy(self, rollouts) ==
  IF self.strategy = "random" THEN [ok |-> TRUE, self |-> self]
  ELSE [ok |-> TRUE, self |-> _update_with_rollouts(self, rollouts)]

\* update_with_rollouts: [ok, self]; ok is FALSE when ValueError is raised.
update_with_rollouts(self, rollouts) ==
  IF self.strategy = "random" THEN [ok |-> TRUE, self |-> self]
  ELSE IF self.strategy \in ScoreStrategies
       THEN [ok |-> TRUE, self |-> _update_with_rollouts(self, rollouts)]
       ELSE [ok |-> FALSE, self |-> self]

\* ---------------------------------------------------------- after_update
\* A faulty variant of AfterUpdateLoop: every accumulator is flushed, pending or not.
RECURSIVE AfterUpdateLoopFlushAll(_, _, _)
AfterUpdateLoopFlushAll(self, actor_index, seed_idx) ==
  IF actor_index >= self.num_actors THEN self
  ELSE IF seed_idx >= NumSeeds THEN AfterUpdateLoopFlushAll(self, actor_index + 1, 0)
  ELSE AfterUpdateLoopFlushAll(update_seed_score(self, actor_index, seed_idx, Zero, 0),
                               actor_index, seed_idx + 1)

RECURSIVE AfterUpdateLoop(_, _, _)
AfterUpdateLoop(self, actor_index, seed_idx) ==
  IF actor_index >= self.num_actors THEN self
  ELSE IF seed_idx >= NumSeeds THEN AfterUpdateLoop(self, actor_index + 1, 0)
  ELSE IF self.partial_seed_scores[actor_index][seed_idx] # Zero
       THEN AfterUpdateLoop(update_seed_score(self, actor_index, seed_idx, Zero, 0),
                            actor_index, seed_idx + 1)
       ELSE AfterUpdateLoop(self, actor_index, seed_idx + 1)

\* A faulty variant of after_update: the accumulators are cleared without the flush.
after_update_clears_only(self) ==
  [self EXCEPT
     !.partial_seed_scores = [a \in DOMAIN @ |-> [s \in SeedIdx |-> Zero]],
     !.partial_seed_steps = [a \in DOMAIN @ |-> [s \in SeedIdx |-> 0]]]

\* A faulty variant of after_update: the unseen flags are reset with the accumulators.
after_update_resets_unseen(self) ==
  [AfterUpdateLoop(self, 0, 0) EXCEPT
     !.unseen_seed_weights = [s \in SeedIdx |-> 1],
     !.partial_seed_scores = [a \in DOMAIN @ |-> [s \in SeedIdx |-> Zero]],
     !.partial_seed_steps = [a \in DOMAIN @ |-> [s \in SeedIdx |-> 0]]]

after_update(self) ==
  [AfterUpdateLoop(self, 0, 0) EXCEPT
     !.partial_seed_scores = [a \in DOMAIN @ |-> [s \in SeedIdx |-> Zero]],
     !.partial_seed_steps = [a \in DOMAIN @ |-> [s \in SeedIdx |-> 0]]]

\* ----------------------------------------------------- weight transforms
ZeroVec == [i \in SeedIdx |-> Zero]
OneHot(k, x) == [i \in SeedIdx |-> IF i = k THEN x ELSE Zero]

\* np.exp on the model's rationals: exp(-inf) = 0, exp(NaN) = NaN, and for a
\* finite x the second-order expansion 1 + x + x^2/2 for x >= 0 and its
\* reciprocal at -x for x < 0 (positive and increasing, exp(0) = 1).
NpExp(x) ==
  IF IsNaN(x) THEN NaN
  ELSE IF x = NegInf THEN Zero
  ELSE IF x = PosInf THEN PosInf
  ELSE LET a == AbsF(x)
           e == Add(Add(One, a), Div(Mul(a, a), Int2F(2)))
       IN  IF x[1] < 0 THEN Div(One, e) ELSE e

\* The order np.argsort leaves the seeds in (ascending score, NaN last, equal
\* scores by index): TRUE when seed i comes before seed j.
SortsBefore(scores, i, j) ==
  IF IsNaN(scores[i]) /\ IsNaN(scores[j]) THEN i < j
  ELSE IF IsNaN(scores[i]) THEN FALSE
  ELSE IF IsNaN(scores[j]) THEN TRUE
  ELSE Lt(scores[i], scores[j]) \/ (scores[i] = scores[j] /\ i < j)

\* A faulty variant of Ranks: the argsort order is not flipped, rank 1 goes to
\* the first of the ascending order.
RanksAscending(scores) ==
  [i \in SeedIdx |-> 1 + Cardinality({j \in SeedIdx : j # i /\ SortsBefore(scores, j, i)})]

\* ranks[np.flip(scores.argsort())] = 1..N: rank 1 for the last of the order.
Ranks(scores) ==
  [i \in SeedIdx |-> 1 + Cardinality({j \in SeedIdx : j # i /\ SortsBefore(scores, i, j)})]

\* scores[self.unseen_seed_weights > 0] = -inf on the view scores[:]
MaskedForMax(self, scores) ==
  [i \in SeedIdx |-> IF self.unseen_seed_weights[i] > 0 THEN NegInf ELSE scores[i]]

\* _score_transform.  The outcomes [ok, weights, scores]: scores is the array
\* that was passed in as it is after the call (the max transform writes -inf
\* into it through the view scores[:]), ok is FALSE when np.random.choice is
\* handed an empty candidate list; several outcomes when max breaks a tie.
_score_transform(self, transform, scores) ==
  CASE transform = "constant" ->
         {[ok |-> TRUE, weights |-> [i \in SeedIdx |-> One], scores |-> scores]}
    [] transform = "max" ->
         LET masked == MaskedForMax(self, scores)
             top == NpMax(masked)
             candidates == {i \in SeedIdx : IsClose(masked[i], top)}
         IN  IF candidates = {}
             THEN {[ok |-> FALSE, weights |-> ZeroVec, scores |-> masked]}
             ELSE {[ok |-> TRUE, weights |-> OneHot(argmax, One), scores |-> masked] :
                     argmax \in candidates}
    [] transform = "eps_greedy" ->
         LET greedy == OneHot(NpArgmax(scores), Sub(One, eps))
         IN  {[ok |-> TRUE,
               weights |-> [i \in SeedIdx |-> Add(greedy[i], Div(eps, Int2F(NumSeeds)))],
               scores |-> scores]}
    [] transform = "rank" ->
         LET ranks == Ranks(scores)
         IN  {[ok |-> TRUE, weights |-> [i \in SeedIdx |-> Div(One, Int2F(ranks[i]))],
               scores |-> scores]}
    [] transform = "power" ->
         LET eps0 == IF Gt(self.staleness_coef, Zero) THEN Zero ELSE PowerEps
         IN  {[ok |-> TRUE, weights |-> [i \in SeedIdx |-> Add(scores[i], eps0)],
               scores |-> scores]}
    [] transform = "softmax" ->
         {[ok |-> TRUE, weights |-> [i \in SeedIdx |-> NpExp(scores[i])],
           scores |-> scores]}

\* A faulty variant of MaskAndNormalize: the unseen seeds are not zeroed out.
NormalizeUnmasked(self, weights) ==
  LET z == NpSum(weights)
  IN  IF Gt(z, Zero) THEN [i \in SeedIdx |-> Div(weights[i], z)] ELSE weights

\* weights * (1 - self.unseen_seed_weights), then weights /= z when z > 0
MaskAndNormalize(self, weights) ==
  LET masked == [i \in SeedIdx |->
                   Mul(weights[i], Int2F(1 - self.unseen_seed_weights[i]))]
      z == NpSum(masked)
  IN  IF Gt(z, Zero) THEN [i \in SeedIdx |-> Div(masked[i], z)] ELSE masked

\* sample_weights: the outcomes [ok, weights, self].
sample_weights(self) ==
  UNION {
    LET self1 == [self EXCEPT !.seed_scores = o1.scores]
        weights == MaskAndNormalize(self, o1.weights)
    IN  IF ~o1.ok THEN {[ok |-> FALSE, weights |-> ZeroVec, self |-> self1]}
        ELSE IF Gt(self.staleness_coef, Zero)
        THEN { LET self2 == [self1 EXCEPT !.seed_staleness = o2.scores]
                   staleness_weights == MaskAndNormalize(self, o2.weights)
               IN  IF ~o2.ok THEN [ok |-> FALSE, weights |-> ZeroVec, self |-> self2]
                   ELSE [ok |-> TRUE,
                         weights |-> [i \in SeedIdx |->
                            Add(Mul(Sub(One, self.staleness_coef), weights[i]),
                                Mul(self.staleness_coef, staleness_weights[i]))],
                         self |-> self2]
               : o2 \in _score_transform(self1, self.staleness_transform,
                                         self1.seed_staleness) }
        ELSE {[ok |-> TRUE, weights |-> weights, self |-> self1]}
    : o1 \in _score_transform(self, self.score_transform, self.seed_scores) }

\* ------------------------------------------------------------ sampling
\* np.random.choice(range(N), 1, p = p) accepts p when it holds no NaN, no
\* negative entry and sums to 1 within sqrt(float64 epsilon) = 2^-26.
ValidP(p) ==
  /\ \A i \in SeedIdx : ~IsNaN(p[i]) /\ ~Lt(p[i], Zero)
  /\ LET off == AbsF(Sub(NpSum(p), One))
     IN  IsFinite(off) /\ (off[1] = 0 \/ off[2] \div off[1] >= 67108864)

\* The indices np.random.choice can return for p.
Support(p) == {i \in SeedIdx : Gt(p[i], Zero)}

_update_staleness(self, selected_idx) ==
  IF Gt(self.staleness_coef, Zero)
  THEN [self EXCEPT !.seed_staleness =
          [i \in SeedIdx |-> IF i = selected_idx THEN Zero ELSE Add(@[i], One)]]
  ELSE self

NoSeed == -1
Failed(self, path, p, fallback) ==
  [ok |-> FALSE, seed |-> NoSeed, self |-> self, path |-> path, p |-> p,
   fallback |-> fallback]
Returned(self, path, p, fallback, seed_idx) ==
  [ok |-> TRUE, seed |-> seeds[seed_idx], self |-> self, path |-> path, p |-> p,
   fallback |-> fallback]

Uniform == [i \in SeedIdx |-> Q(1, NumSeeds)]

\* _sample_replay_level: the outcomes of one call.
_sample_replay_level(self) ==
  UNION {
    IF ~o.ok THEN {Failed(o.self, "replay", o.weights, FALSE)}
    ELSE LET fallback == IsClose(NpSum(o.weights), Zero)
             p == IF fallback THEN Uniform ELSE o.weights
         IN  IF ~ValidP(p) THEN {Failed(o.self, "replay", p, fallback)}
             ELSE {Returned(_update_staleness(o.self, seed_idx), "replay", p,
                            fallback, seed_idx) : seed_idx \in Support(p)}
    : o \in sample_weights(self) }

\* _sample_unseen_level: the outcomes of one call.
_sample_unseen_level(self) ==
  LET total == NpSum([i \in SeedIdx |-> Int2F(self.unseen_seed_weights[i])])
      p == [i \in SeedIdx |-> Div(Int2F(self.unseen_seed_weights[i]), total)]
  IN  IF ~ValidP(p) THEN {Failed(self, "unseen", p, FALSE)}
      ELSE {Returned(_update_staleness(self, seed_idx), "unseen", p, FALSE, seed_idx) :
              seed_idx \in Support(p)}

\* A faulty variant of ProportionSeen: num_unseen counted with >= 0 instead of > 0.
ProportionSeenCountsAll(self) ==
  Q(NumSeeds - Cardinality({i \in SeedIdx : self.unseen_seed_weights[i] >= 0}), NumSeeds)

\* proportion_seen = (len(seeds) - num_unseen)/len(seeds)
ProportionSeen(self) ==
  Q(NumSeeds - Cardinality({i \in SeedIdx : self.unseen_seed_weights[i] > 0}), NumSeeds)

\* A faulty variant of sample: the schedules do not compare proportion_seen
\* with rho.
sample_without_rho_gate(self, strategy_arg, r) ==
  LET strat == IF strategy_arg = "" THEN self.strategy ELSE strategy_arg
      proportion_seen == ProportionSeen(self)
  IN  IF strat = "random"
      THEN {Returned(self, "random", Uniform, FALSE, seed_idx) : seed_idx \in SeedIdx}
      ELSE IF strat = "sequential"
      THEN {Returned([self EXCEPT !.next_seed_index = (@ + 1) % NumSeeds],
                     "sequential", ZeroVec, FALSE, self.next_seed_index)}
      ELSE IF self.replay_schedule = "fixed"
      THEN IF Gt(r, self.nu) \/ ~Lt(proportion_seen, One)
           THEN _sample_replay_level(self)
           ELSE _sample_unseen_level(self)
      ELSE IF Lt(r, proportion_seen)
           THEN _sample_replay_level(self)
           ELSE _sample_unseen_level(self)

\* A faulty variant of sample: the sequential strategy does not advance
\* next_seed_index.
sample_sequential_stuck(self, strategy_arg, r) ==
  LET strat == IF strategy_arg = "" THEN self.strategy ELSE strategy_arg
      proportion_seen == ProportionSeen(self)
  IN  IF strat = "random"
      THEN {Returned(self, "random", Uniform, FALSE, seed_idx) : seed_idx \in SeedIdx}
      ELSE IF strat = "sequential"
      THEN {Returned(self, "sequential", ZeroVec, FALSE, self.next_seed_index)}
      ELSE IF self.replay_schedule = "fixed"
      THEN IF Geq(proportion_seen, self.rho)
              /\ (Gt(r, self.nu) \/ ~Lt(proportion_seen, One))
           THEN _sample_replay_level(self)
           ELSE _sample_unseen_level(self)
      ELSE IF Geq(proportion_seen, self.rho) /\ Lt(r, proportion_seen)
           THEN _sample_replay_level(self)
           ELSE _sample_unseen_level(self)

\* sample(strategy): the outcomes of one call; the argument "" stands for None
\* (both falsy), r is the value np.random.rand() returns if it is called.
sample(self, strategy_arg, r) ==
  LET strat == IF strategy_arg = "" THEN self.strategy ELSE strategy_arg
      proportion_seen == ProportionSeen(self)
  IN  IF strat = "random"
      THEN {Returned(self, "random", Uniform, FALSE, seed_idx) : seed_idx \in SeedIdx}
      ELSE IF strat = "sequential"
      THEN {Returned([self EXCEPT !.next_seed_index = (@ + 1) % NumSeeds],
                     "sequential", ZeroVec, FALSE, self.next_seed_index)}
      ELSE IF self.replay_schedule = "fixed"
      THEN IF Geq(proportion_seen, self.rho)
              /\ (Gt(r, self.nu) \/ ~Lt(proportion_seen, One))
           THEN _sample_replay_level(self)
           ELSE _sample_unseen_level(self)
      ELSE IF Geq(proportion_seen, self.rho) /\ Lt(r, proportion_seen)
           THEN _sample_replay_level(self)
           ELSE _sample_unseen_level(self)

\* ------------------------------------------------------- configurations
Transforms == {"constant", "max", "eps_greedy", "rank", "power", "softmax"}
Half == Q(1, 2)

Config(na, st, sch, tr, coef, str, al, rh, n) ==
  [num_actors |-> na, strategy |-> st, replay_schedule |-> sch,
   score_transform |-> tr, staleness_coef |-> coef, staleness_transform |-> str,
   alpha |-> al, rho |-> rh, nu |-> n]

\* The constructor calls explored by Spec: one actor, the fixed schedule with
\* rho = nu = 1/2, alpha = 1; every score transform without staleness
\* weighting, every staleness transform with staleness_coef = 1/2, and the
\* strategies random and sequential.
Configs ==
  {Config(1, "value_l1", "fixed", tr, Zero, "power", One, Half, Half) : tr \in Transforms}
  \cup {Config(1, "value_l1", "fixed", pair[1], Half, pair[2], One, Half, Half) :
          pair \in {<<"power", "power">>, <<"constant", "max">>, <<"max", "constant">>,
                    <<"rank", "rank">>, <<"eps_greedy", "softmax">>,
                    <<"softmax", "eps_greedy">>}}
  \cup {Config(1, st, "fixed", "power", Zero, "power", One, Half, Half) :
          st \in {"random", "sequential"}}

\* The constructor calls explored by SpecSchedule: both replay schedules with
\* rho and nu at the ends and in the middle of [0, 1] (nu is read by the fixed
\* schedule only).
ScheduleConfigs ==
  {Config(1, "value_l1", "fixed", "power", Zero, "power", One, rh, n) :
     rh \in {Zero, Half, One}, n \in {Zero, Half, One}}
  \cup {Config(1, "value_l1", "proportionate", "power", Zero, "power", One, rh, Half) :
          rh \in {Zero, Half, One}}

\* The constructor calls explored by SpecLedger: two actors, alpha = 1/2 and 1.
LedgerConfigs ==
  {Config(2, "value_l1", "fixed", "power", Zero, "power", al, Half, Half) :
     al \in {Half, One}}

\* The constructor call explored by SpecMerge.
MergeConfigs ==
  {Config(1, "value_l1", "fixed", "power", Zero, "power", Half, Half, Half)}

\* ------------------------------------------------------ rollout batches
\* One actor's column of a batch: masks, level_seeds and the per-step signal.
Signals == {0, 1}
Columns ==
  [masks : [Steps -> {0, 1}], level_seeds : [Steps -> SeedIds],
   signal : [Steps -> Signals]]

\* The level of an actor changes only where an episode ended.
SeedsFollowMasks(c) ==
  \A t \in Steps : t > 0 /\ c.level_seeds[t] # c.level_seeds[t - 1] => c.masks[t] = 0
ConstantSignal(c) == \A t \in Steps : c.signal[t] = c.signal[0]

\* A batch of total_steps x num_actors from its columns.
Batch(cols) ==
  [shape |-> <<TotalSteps, Cardinality(DOMAIN cols)>>,
   masks |-> [t \in Steps |-> [a \in DOMAIN cols |-> cols[a].masks[t]]],
   level_seeds |-> [t \in Steps |-> [a \in DOMAIN cols |-> cols[a].level_seeds[t]]],
   signal |-> [t \in Steps |-> [a \in DOMAIN cols |-> cols[a].signal[t]]]]

\* The actors of a batch step in lockstep: the same masks and level seeds in
\* every column (the signals differ).
Lockstep(cols) ==
  \A a \in DOMAIN cols :
    cols[a].masks = cols[0].masks /\ cols[a].level_seeds = cols[0].level_seeds

\* The batches handed to update_with_rollouts by a run with n actors.
EpisodeColumns == {c \in Columns : SeedsFollowMasks(c) /\ ConstantSignal(c)}
ActorCounts == {1, 2}
RolloutsOf ==
  [n \in ActorCounts |->
     {Batch(cols) : cols \in {cs \in [0 .. (n - 1) -> EpisodeColumns] : Lockstep(cs)}}]
Rollouts(n) == RolloutsOf[n]

\* The values np.random.rand() returns, in [0, 1).
Draws == {Zero, Half, Q(9, 10)}
\* The strategy argument of sample(): None, or an override.
StrategyArgs == {""}

\* ------------------------------------------------------------- __init__
NoCall ==
  [op |-> "__init__", ok |-> TRUE, seed |-> NoSeed, path |-> "none",
   p |-> ZeroVec, fallback |-> FALSE]

InitWith(configs) ==
  /\ \E c \in configs :
       /\ num_actors = c.num_actors
       /\ strategy = c.strategy
       /\ replay_schedule = c.replay_schedule
       /\ score_transform = c.score_transform
       /\ staleness_coef = c.staleness_coef
       /\ staleness_transform = c.staleness_transform
       /\ alpha = c.alpha
       /\ rho = c.rho
       /\ nu = c.nu
  /\ unseen_seed_weights = [i \in SeedIdx |-> 1]
  /\ seed_scores = [i \in SeedIdx |-> Zero]
  /\ partial_seed_scores = [a \in 0 .. (num_actors - 1) |-> [i \in SeedIdx |-> Zero]]
  /\ partial_seed_steps = [a \in 0 .. (num_actors - 1) |-> [i \in SeedIdx |-> 0]]
  /\ seed_staleness = [i \in SeedIdx |-> Zero]
  /\ next_seed_index = 0
  /\ last = NoCall
  /\ log = <<>>
  /\ ncalls = 0
  /\ ever_done = {}
  /\ ever_flushed = {}

Init == InitWith(Configs)

\* ---------------------------------------------------------------- calls
\* The object's attributes after a call that returned `self`.
Store(self) ==
  /\ unseen_seed_weights' = self.unseen_seed_weights
  /\ seed_scores' = self.seed_scores
  /\ partial_seed_scores' = self.partial_seed_scores
  /\ partial_seed_steps' = self.partial_seed_steps
  /\ seed_staleness' = self.seed_staleness
  /\ next_seed_index' = self.next_seed_index
  /\ log' = self.log
  /\ UNCHANGED config

\* The seeds update_seed_score was applied to during a call.
Finalized(self) ==
  {self.log[k].seed_idx : k \in {j \in DOMAIN self.log : self.log[j].fn = "update_seed_score"}}

Sample(strategy_arg, r) ==
  /\ ncalls < MaxCalls
  /\ \E o \in sample(Self, strategy_arg, r) :
       /\ Store(o.self)
       /\ last' = [op |-> "sample", ok |-> o.ok, seed |-> o.seed, path |-> o.path,
                   p |-> o.p, fallback |-> o.fallback]
  /\ ncalls' = ncalls + 1
  /\ UNCHANGED <<ever_done, ever_flushed>>

SampleWeights ==
  /\ ncalls < MaxCalls
  /\ \E o \in sample_weights(Self) :
       /\ Store(o.self)
       /\ last' = [op |-> "sample_weights", ok |-> o.ok, seed |-> NoSeed,
                   path |-> "none", p |-> o.weights, fallback |-> FALSE]
  /\ ncalls' = ncalls + 1
  /\ UNCHANGED <<ever_done, ever_flushed>>

UpdateWithRollouts(rollouts) ==
  /\ ncalls < MaxCalls
  /\ LET o == update_with_rollouts(Self, rollouts)
     IN  /\ Store(o.self)
         /\ last' = [op |-> "update_with_rollouts", ok |-> o.ok, seed |-> NoSeed,
                     path |-> "none", p |-> ZeroVec, fallback |-> FALSE]
         /\ ever_done' = ever_done \cup Finalized(o.self)
  /\ ncalls' = ncalls + 1
  /\ UNCHANGED ever_flushed

AfterUpdate ==
  /\ ncalls < MaxCalls
  /\ LET self == after_update(Self)
     IN  /\ Store(self)
         /\ ever_flushed' = ever_flushed \cup Finalized(self)
  /\ last' = [op |-> "after_update", ok |-> TRUE, seed |-> NoSeed, path |-> "none",
              p |-> ZeroVec, fallback |-> FALSE]
  /\ ncalls' = ncalls + 1
  /\ UNCHANGED ever_done

Next ==
  \/ \E strategy_arg \in StrategyArgs, r \in Draws : Sample(strategy_arg, r)
  \/ SampleWeights
  \/ \E rollouts \in Rollouts(num_actors) : UpdateWithRollouts(rollouts)
  \/ AfterUpdate

Spec == Init /\ [][Next]_vars

SpecSchedule == InitWith(ScheduleConfigs) /\ [][Next]_vars
SpecLedger == InitWith(LedgerConfigs) /\ [][Next]_vars

\* --------------------------------------------- the merge, called directly
\* SpecMerge calls _partial_update_seed_score and update_seed_score directly
\* for (actor 0, seed 0), one call per segment of one episode; log keeps the
\* calls of the whole episode.
MaxSegments == 3
MaxSegmentSteps == 3
MergeScores == {Q(-1, 1), Zero, One, Q(5, 2)}

EpisodeOpen == IF log = <<>> THEN TRUE ELSE log[Len(log)].fn # "update_seed_score"

PartialUpdateSeedScore(score, num_steps) ==
  /\ Len(log) < MaxSegments
  /\ EpisodeOpen
  /\ Store(_partial_update_seed_score([Self EXCEPT !.log = log], 0, 0, score,
                                      num_steps, FALSE).self)
  /\ last' = [NoCall EXCEPT !.op = "_partial_update_seed_score"]
  /\ UNCHANGED <<ncalls, ever_done, ever_flushed>>

UpdateSeedScore(score, num_steps) ==
  /\ Len(log) < MaxSegments
  /\ EpisodeOpen
  /\ Store(update_seed_score([Self EXCEPT !.log = log], 0, 0, score, num_steps))
  /\ last' = [NoCall EXCEPT !.op = "update_seed_score"]
  /\ UNCHANGED <<ncalls, ever_done, ever_flushed>>

MergeNext ==
  \/ \E score \in MergeScores, num_steps \in 1 .. MaxSegmentSteps :
       PartialUpdateSeedScore(score, num_steps)
  \/ \E score \in MergeScores, num_steps \in 1 .. MaxSegmentSteps :
       UpdateSeedScore(score, num_steps)

SpecMerge == InitWith(MergeConfigs) /\ [][MergeNext]_vars

\* ------------------------------------- the rank transform, called directly
\* SpecRank calls _score_transform('rank', temperature 1, seed_scores) on a
\* sampler all of whose seeds are seen, for every score vector over RankScores.
RankScores ==
  {Q(-2, 1), Q(-1, 1), Q(-1, 2), Zero, Half, One, Q(3, 2), Q(2, 1), Q(3, 1), Q(5, 1)}

RankConfigs ==
  {Config(1, "value_l1", "fixed", "rank", Zero, "power", One, Half, Half)}

InitRank ==
  /\ \E c \in RankConfigs :
       /\ num_actors = c.num_actors
       /\ strategy = c.strategy
       /\ replay_schedule = c.replay_schedule
       /\ score_transform = c.score_transform
       /\ staleness_coef = c.staleness_coef
       /\ staleness_transform = c.staleness_transform
       /\ alpha = c.alpha
       /\ rho = c.rho
       /\ nu = c.nu
  /\ unseen_seed_weights = [i \in SeedIdx |-> 0]
  /\ seed_scores \in [SeedIdx -> RankScores]
  /\ partial_seed_scores = [a \in 0 .. (num_actors - 1) |-> [i \in SeedIdx |-> Zero]]
  /\ partial_seed_steps = [a \in 0 .. (num_actors - 1) |-> [i \in SeedIdx |-> 0]]
  /\ seed_staleness = [i \in SeedIdx |-> Zero]
  /\ next_seed_index = 0
  /\ last = NoCall
  /\ log = <<>>
  /\ ncalls = 0
  /\ ever_done = SeedIdx
  /\ ever_flushed = {}

ScoreTransformRank ==
  /\ last.op = "__init__"
  /\ \E o \in _score_transform(Self, "rank", seed_scores) :
       /\ Store([Self EXCEPT !.seed_scores = o.scores])
       /\ last' = [NoCall EXCEPT !.op = "_score_transform", !.ok = o.ok, !.p = o.weights]
  /\ UNCHANGED <<ncalls, ever_done, ever_flushed>>

SpecRank == InitRank /\ [][ScoreTransformRank]_vars

\* ------------------------------- update_with_rollouts on a fresh sampler
\* SpecSplit makes one update_with_rollouts call on a freshly constructed
\* two-actor sampler, for every batch of independent columns and three score
\* functions, and keeps the batch beside the ledger calls the call made.
SplitConfigs ==
  {Config(2, st, "fixed", "power", Zero, "power", Half, Half, Half) :
     st \in {"value_l1", "gae", "one_step_td_error"}}

\* The batches of n actors whose columns are chosen independently of each
\* other (the actors' episodes end at different steps, on different seeds).
IndependentRollouts(n) == {Batch(cols) : cols \in [0 .. (n - 1) -> EpisodeColumns]}

FirstUpdateWithRollouts ==
  /\ ncalls = 0
  /\ \E rollouts \in IndependentRollouts(num_actors) :
       LET o == update_with_rollouts(Self, rollouts)
       IN  /\ Store(o.self)
           /\ last' = [op |-> "update_with_rollouts", ok |-> o.ok, seed |-> NoSeed,
                       path |-> "none", p |-> ZeroVec, fallback |-> FALSE,
                       rollouts |-> rollouts]
           /\ ever_done' = ever_done \cup Finalized(o.self)
  /\ ncalls' = ncalls + 1
  /\ UNCHANGED ever_flushed

SpecSplit == InitWith(SplitConfigs) /\ [][FirstUpdateWithRollouts]_vars

\* =============================================================== claims
ScoreDriven == strategy \notin {"random", "sequential"}
AllSeen == \A i \in SeedIdx : unseen_seed_weights[i] = 0
SomeSeen == \E i \in SeedIdx : unseen_seed_weights[i] = 0
SomeUnseen == \E i \in SeedIdx : unseen_seed_weights[i] > 0

\* C1 (Unseen exhaustion): a score-driven sample() called in a state where
\* unseen is all-zero takes the replay path, under the fixed and the
\* proportionate schedule, for rho and nu in [0, 1] and every draw;
\* _sample_unseen_level is not invoked once no unseen seed is left.
UnseenExhaustion ==
  [][(last'.op = "sample" /\ ScoreDriven /\ AllSeen) => last'.path = "replay"]_vars

\* C1 witness: a score-driven sample() that took the replay path with every
\* seed seen.
UnseenExhaustionWitness ==
  last.op = "sample" /\ ScoreDriven /\ AllSeen /\ last.path = "replay" /\ last.ok

\* C2 (Normalization): the vector sample_weights() returns sums to 1, the
\* degenerate all-zero cases included.
SampleWeightsSumToOne ==
  (last.op = "sample_weights" /\ last.ok) => IsClose(NpSum(last.p), One)

\* C3 (Sampling always succeeds): a score-driven sample() returns a seed of
\* the pool and does not fail, and the distribution the replay path draws from
\* is non-negative with total mass 1.
SamplingAlwaysSucceeds ==
  (last.op = "sample" /\ ScoreDriven) =>
    /\ last.ok
    /\ last.seed \in SeedIds
    /\ (last.path = "replay" => ValidP(last.p))

\* The weighted sums over the calls log[1..k] of one episode.
RECURSIVE SumSteps(_, _)
SumSteps(calls, k) == IF k = 0 THEN 0 ELSE SumSteps(calls, k - 1) + calls[k].num_steps
RECURSIVE SumStepScores(_, _)
SumStepScores(calls, k) ==
  IF k = 0 THEN Zero
  ELSE Add(SumStepScores(calls, k - 1), Mul(Int2F(calls[k].num_steps), calls[k].score))
WeightedMean(calls) ==
  Div(SumStepScores(calls, Len(calls)), Int2F(SumSteps(calls, Len(calls))))

MergeCall == last.op \in {"_partial_update_seed_score", "update_seed_score"}

\* C4 (Merge correctness): after k >= 1 segment updates of one (actor, seed)
\* from the accumulator (0, 0), the merged value of the last update is the
\* weighted mean sum(ni*si)/sum(ni); while the episode is open the accumulator
\* holds that mean and the step count sum(ni), and a completed update leaves
\* the accumulator at (0, 0) and hands the mean to the EMA.
MergeIsWeightedMean ==
  MergeCall =>
    LET k == Len(log)
    IN  /\ log[k].merged_score = WeightedMean(log)
        /\ IF log[k].fn = "update_seed_score"
           THEN /\ partial_seed_scores[0][0] = Zero
                /\ partial_seed_steps[0][0] = 0
                /\ seed_scores[0] = Mul(alpha, WeightedMean(log))
           ELSE /\ partial_seed_scores[0][0] = WeightedMean(log)
                /\ partial_seed_steps[0][0] = SumSteps(log, k)

\* C4 witness: an episode of three segments with different scores and step
\* counts, the last one completed.
MergeIsWeightedMeanWitness ==
  /\ MergeCall
  /\ Len(log) = 3
  /\ log[3].fn = "update_seed_score"
  /\ log[1].score # log[2].score /\ log[2].score # log[3].score
  /\ log[1].num_steps # log[2].num_steps

\* C5 as stated (unseen is exact): unseen[s] is 0 exactly when a
\* completed-episode update (a segment ending in a termination flag) was
\* applied for s.
UnseenIffEpisodeCompleted ==
  \A s \in SeedIdx : unseen_seed_weights[s] = 0 <=> s \in ever_done

\* C5 amended: unseen[s] is 0 exactly when update_seed_score was applied for
\* s, by a terminated segment in update_with_rollouts or by after_update
\* flushing a pending partial with a non-zero score.
UnseenIffScoreUpdated ==
  \A s \in SeedIdx : unseen_seed_weights[s] = 0 <=> s \in (ever_done \cup ever_flushed)

\* C5 witness: a seed seen only through a flush while another seed, never
\* scored, is still unseen.
UnseenIffScoreUpdatedWitness ==
  /\ \E s \in ever_flushed \ ever_done : unseen_seed_weights[s] = 0
  /\ SomeUnseen

\* C6 (unseen is monotone): unseen starts at 1 for every seed, holds only 0
\* and 1, and is never set back from 0 to 1.
UnseenMonotone ==
  /\ \A s \in SeedIdx : unseen_seed_weights[s] = 1
  /\ [](\A s \in SeedIdx : unseen_seed_weights[s] \in {0, 1})
  /\ [][\A s \in SeedIdx : unseen_seed_weights[s] = 0 => unseen_seed_weights'[s] = 0]_vars

\* C6 witness: a seed seen since an earlier call, after a later after_update.
UnseenMonotoneWitness ==
  /\ last.op = "after_update"
  /\ ncalls >= 3
  /\ \E s \in ever_done : unseen_seed_weights[s] = 0

\* seed_scores[s] after one EMA step for each of the actors 0..k that `pending`
\* holds for, in actor order.
RECURSIVE EmaOverActors(_, _, _)
EmaOverActors(pending(_, _), s, k) ==
  IF k < 0 THEN seed_scores[s]
  ELSE LET before == EmaOverActors(pending, s, k - 1)
       IN  IF pending(k, s)
           THEN Add(Mul(Sub(One, alpha), before), Mul(alpha, partial_seed_scores[k][s]))
           ELSE before

NonzeroPartial(a, s) == partial_seed_scores[a][s] # Zero
PendingSteps(a, s) == partial_seed_steps[a][s] > 0

AccumulatorsCleared ==
  \A a \in 0 .. (num_actors - 1), s \in SeedIdx :
    partial_seed_scores[a][s] = Zero /\ partial_seed_steps[a][s] = 0

\* C7 (after_update flush of a nonzero partial): after after_update() every
\* accumulator is (0, 0), and seed_scores[s] has received one EMA step
\* (1 - alpha)*seed_scores[s] + alpha*partial_seed_scores[w][s] per actor w
\* holding a nonzero partial for s, in actor order; the other seed scores are
\* unchanged.
AfterUpdateFlush ==
  [][last'.op = "after_update" =>
       /\ AccumulatorsCleared'
       /\ \A s \in SeedIdx :
            seed_scores'[s] = EmaOverActors(NonzeroPartial, s, num_actors - 1)]_vars

\* C7 witness: after_update() flushed two actors' different nonzero partials of
\* one seed.
AfterUpdateFlushWitness ==
  /\ last.op = "after_update"
  /\ \E i, j \in DOMAIN log :
       /\ log[i].seed_idx = log[j].seed_idx
       /\ log[i].actor_index < log[j].actor_index
       /\ log[i].merged_score # log[j].merged_score
       /\ log[i].merged_score # Zero /\ log[j].merged_score # Zero

\* C8 (no pending segment is silently discarded): after_update() flushes every
\* (actor, seed) with partial_seed_steps > 0 into the EMA of seed_scores[s],
\* whatever its partial score.
PendingSegmentsFlushed ==
  [][last'.op = "after_update" =>
       \A s \in SeedIdx :
         seed_scores'[s] = EmaOverActors(PendingSteps, s, num_actors - 1)]_vars

\* C9 (Staleness reset): with staleness weighting on, after a score-driven
\* sample() the returned seed has staleness 0 and every other seed its
\* staleness before the call plus 1.
StalenessReset ==
  [][(last'.op = "sample" /\ last'.ok /\ ScoreDriven /\ Gt(staleness_coef, Zero)) =>
       \A i \in SeedIdx :
         seed_staleness'[i] =
           IF seeds[i] = last'.seed THEN Zero ELSE Add(seed_staleness[i], One)]_vars

ReplayReturned == last.op = "sample" /\ last.ok /\ last.path = "replay"

\* C10 as stated (replay never hands out an unseen seed): whenever a seed is
\* seen and sample() takes the replay path, the returned seed has unseen = 0.
ReplayReturnsSeenSeed ==
  (ReplayReturned /\ SomeSeen) => unseen_seed_weights[seed2index[last.seed]] = 0

\* C10 amended: whenever a seed is seen and sample() takes the replay path
\* without the uniform fallback (the masked weights do not sum to ~0), the
\* returned seed has unseen = 0.
ReplayWithoutFallbackReturnsSeenSeed ==
  (ReplayReturned /\ SomeSeen /\ ~last.fallback) =>
    unseen_seed_weights[seed2index[last.seed]] = 0

\* C10 witness: a replay draw without fallback while a seed is still unseen.
ReplayWithoutFallbackWitness ==
  ReplayReturned /\ SomeSeen /\ SomeUnseen /\ ~last.fallback

\* The draws for which C11 asks for the unseen path: every draw when
\* proportion_seen < rho, and under the proportionate schedule every draw
\* >= proportion_seen.
GatedToUnseen(r) ==
  \/ Lt(ProportionSeen(Self), rho)
  \/ replay_schedule # "fixed" /\ Geq(r, ProportionSeen(Self))

\* C11 (Schedule gating by rho): in every reachable state of a score-driven
\* sampler, under both schedules, a sample() call made while proportion_seen
\* is strictly below rho takes the unseen path for every draw and returns a
\* seed whose unseen weight is 1 at the call; under the proportionate schedule
\* the same holds for every draw >= proportion_seen.
ScheduleGatingByRho ==
  ScoreDriven =>
    \A r \in Draws :
      GatedToUnseen(r) =>
        \A o \in sample(Self, "", r) :
          /\ o.ok
          /\ o.path = "unseen"
          /\ unseen_seed_weights[seed2index[o.seed]] = 1

\* C11 witness: a sample() call that took the unseen path with one seed seen
\* and proportion_seen below rho (sample() leaves unseen as it is, so
\* proportion_seen is that of the call).
ScheduleGatingByRhoWitness ==
  /\ last.op = "sample" /\ last.ok /\ ScoreDriven
  /\ last.path = "unseen"
  /\ SomeSeen
  /\ Lt(ProportionSeen(Self), rho)

\* The ledger arrays other than next_seed_index.
scores_ledger ==
  <<unseen_seed_weights, seed_scores, partial_seed_scores, partial_seed_steps,
    seed_staleness>>

\* sample('sequential') called in the current state: one outcome, the seed at
\* next_seed_index, next_seed_index advanced modulo N and nothing else changed.
SequentialCallHere ==
  \A o \in sample(Self, "sequential", Zero) :
    /\ o.ok
    /\ o.seed = seeds[next_seed_index]
    /\ o.self = [Self EXCEPT !.next_seed_index = (next_seed_index + 1) % NumSeeds]

\* C12 (Sequential mode is a round-robin): next_seed_index is in [0, N) in
\* every reachable state; a sequential sample() returns the seed at
\* next_seed_index, sets next_seed_index to (next_seed_index + 1) mod N and
\* changes no other ledger state; and a sequential sample() that follows a
\* sequential sample() returns the next seed of the pool in cyclic order, so
\* N consecutive calls return each seed once, in pool order.
SequentialRoundRobin ==
  /\ [](next_seed_index \in SeedIdx /\ SequentialCallHere)
  /\ [][(strategy = "sequential" /\ last'.op = "sample") =>
          /\ last'.ok
          /\ last'.seed = seeds[next_seed_index]
          /\ next_seed_index' = (next_seed_index + 1) % NumSeeds
          /\ UNCHANGED scores_ledger]_vars
  /\ [][(strategy = "sequential" /\ last.op = "sample" /\ last'.op = "sample") =>
          last'.seed = seeds[(seed2index[last.seed] + 1) % NumSeeds]]_vars

\* C12 witness: sequential sample() calls have gone once round the pool: the
\* last seed of the pool was returned and next_seed_index is back at 0.
SequentialRoundRobinWitness ==
  /\ strategy = "sequential"
  /\ last.op = "sample" /\ last.ok
  /\ last.seed = seeds[NumSeeds - 1]
  /\ next_seed_index = 0

\* Strategy names update_with_rollouts has no score function for.
UnsupportedStrategies == {"sequential", "unknown"}

\* update_with_rollouts on the current ledger under strategy st, for every
\* batch: refused (ValueError) with the object untouched when st is not
\* supported, a normal return with the object untouched when st is 'random'.
RefusedOrIgnoredHere(st) ==
  \A rollouts \in Rollouts(num_actors) :
    update_with_rollouts([Self EXCEPT !.strategy = st], rollouts)
      = [ok |-> st = "random", self |-> [Self EXCEPT !.strategy = st]]

\* C13 (Unsupported strategy at score-update time): update_with_rollouts under
\* a strategy that is neither 'random' nor one of the six score functions
\* fails with the unsupported-strategy error and no ledger state is modified;
\* under 'random' it returns normally and no ledger state is modified.
UnsupportedStrategyRefused ==
  /\ [](\A st \in UnsupportedStrategies \cup {"random"} : RefusedOrIgnoredHere(st))
  /\ [][(last'.op = "update_with_rollouts" /\ strategy \notin ScoreStrategies) =>
          /\ last'.ok = (strategy = "random")
          /\ UNCHANGED ledger]_vars

\* C13 witness: update_with_rollouts was refused on a sampler whose strategy
\* has no score function, after a sample() call had advanced its ledger.
UnsupportedStrategyRefusedWitness ==
  /\ last.op = "update_with_rollouts" /\ ~last.ok
  /\ strategy \notin ScoreStrategies \cup {"random"}
  /\ next_seed_index # 0

DistinctScores == \A i, j \in SeedIdx : i # j => seed_scores[i] # seed_scores[j]

\* The rank 1/weight the rank transform gave seed i.
RankOf(i) == Div(One, last.p[i])

\* C14 (Rank transform ordering): for a score vector with distinct scores the
\* rank transform (temperature 1) gives weights 1/rank whose ranks are a
\* permutation of 1..N with rank 1 on the highest score, so a strictly higher
\* score gets a strictly larger weight; for the scores 1, 2, .., N in pool
\* order ([1, 2, 3] for three seeds) the weights strictly increase.
RankOrdering ==
  (last.op = "_score_transform" /\ DistinctScores) =>
    /\ last.ok
    /\ {RankOf(i) : i \in SeedIdx} = {Int2F(k) : k \in 1 .. NumSeeds}
    /\ RankOf(NpArgmax(seed_scores)) = One
    /\ \A i, j \in SeedIdx :
         Lt(seed_scores[i], seed_scores[j]) => Lt(last.p[i], last.p[j])
    /\ (\A i \in SeedIdx : seed_scores[i] = Int2F(i + 1)) =>
         \A i \in SeedIdx : i > 0 => Lt(last.p[i - 1], last.p[i])

\* C14 witness: the rank transform applied to distinct scores that are not in
\* pool order: the first seed holds the highest score and got rank 1.
RankOrderingWitness ==
  /\ last.op = "_score_transform" /\ DistinctScores
  /\ NpArgmax(seed_scores) = 0
  /\ last.p[0] = One
  /\ \E i \in SeedIdx : Lt(last.p[i], One)

\* The ledger calls of `calls` made for actor a, in order.
CallsOf(calls, a) ==
  LET Mine(e) == e.actor_index = a
  IN  SelectSeq(calls, Mine)

\* The offsets t >= 1 of actor a's termination flags in the batch.
Cuts(rollouts, a) == {t \in Steps : t >= 1 /\ Done(rollouts, t, a)}

\* The calls made for actor a split the steps 0 .. T-1 of the batch at the
\* termination flags at offsets >= 1: non-empty consecutive segments that sum
\* to T, a completed update for each segment closed by a flag and one partial
\* update for the trailing segment, each for the seed at its first step.
SplitsAtFlags(rollouts, calls, a) ==
  LET mine == CallsOf(calls, a)
      k == Len(mine)
  IN  /\ k = Cardinality(Cuts(rollouts, a)) + 1
      /\ \A j \in 1 .. k :
           /\ mine[j].num_steps >= 1
           /\ mine[j].fn = IF j < k THEN "update_seed_score"
                           ELSE "_partial_update_seed_score"
           /\ mine[j].seed_idx =
                seed2index[rollouts.level_seeds[SumSteps(mine, j - 1)][a]]
      /\ {SumSteps(mine, j) : j \in 1 .. (k - 1)} = Cuts(rollouts, a)
      /\ SumSteps(mine, k) = TotalSteps

\* C15 (Segment splitting covers the batch exactly once): for each actor,
\* update_with_rollouts splits the T steps at the termination flags into
\* consecutive non-empty segments whose step counts sum to T; a segment closed
\* by a flag at offset t >= 1 gets a completed-episode update for the seed at
\* its first step, the trailing segment one partial update, and a flag at
\* offset 0 causes no update and no zero-length segment.
SegmentSplitting ==
  (last.op = "update_with_rollouts" /\ last.ok) =>
    \A a \in 0 .. (num_actors - 1) : SplitsAtFlags(last.rollouts, log, a)

\* C15 witness: a batch with termination flags at offset 0 and at the last
\* offset for actor 0 and none for actor 1: for actor 0 the flag at 0 is
\* skipped, the other one closes a segment, and a trailing segment of one step
\* is left pending; actor 1's whole column is one pending segment.
SegmentSplittingWitness ==
  /\ last.op = "update_with_rollouts" /\ last.ok
  /\ Done(last.rollouts, 0, 0) /\ Done(last.rollouts, TotalSteps - 1, 0)
  /\ Cuts(last.rollouts, 1) = {}
  /\ \E s \in SeedIdx : partial_seed_steps[1][s] = TotalSteps
  /\ \E j \in DOMAIN log :
       /\ log[j].actor_index = 0 /\ log[j].fn = "update_seed_score"
       /\ log[j].num_steps >= 1
  /\ \E s \in SeedIdx : partial_seed_steps[0][s] = 1

\* The last update_seed_score call of the handler for the seed of log[k].
LastFinalizationOf(k) ==
  /\ log[k].fn = "update_seed_score"
  /\ \A j \in DOMAIN log :
       j > k /\ log[j].fn = "update_seed_score" => log[j].seed_idx # log[k].seed_idx

\* C16 (Completed-episode update): after an update_with_rollouts call, every
\* seed an episode of n >= 1 steps was finalized for is no longer unseen, and
\* with alpha = 1 its seed_score equals the merged score of its last
\* finalization, whatever seed_score held before.
CompletedEpisodeUpdate ==
  (last.op = "update_with_rollouts" /\ last.ok) =>
    \A k \in DOMAIN log :
      (LastFinalizationOf(k) /\ log[k].num_steps >= 1) =>
        /\ unseen_seed_weights[log[k].seed_idx] = 0
        /\ alpha = One => seed_scores[log[k].seed_idx] = log[k].merged_score

\* The handler that just ran made partial (non-terminated) updates only.
PartialUpdatesOnly(calls) ==
  /\ calls # <<>>
  /\ \A k \in DOMAIN calls : calls[k].fn = "_partial_update_seed_score"

\* The partial update the handler made for (a, s), if any.
PartialCallsFor(calls, a, s) ==
  {k \in DOMAIN calls : calls[k].actor_index = a /\ calls[k].seed_idx = s}

\* C17 (Partial update frame): an update_with_rollouts call that makes partial
\* updates only leaves seed_scores, unseen, staleness and next_seed_index as
\* they were; the accumulator of each (w, s) it updated holds the merged score
\* and the summed step count, and every other accumulator is unchanged.
PartialUpdateFrame ==
  [][(last'.op = "update_with_rollouts" /\ last'.ok /\ PartialUpdatesOnly(log')) =>
       /\ seed_scores' = seed_scores
       /\ unseen_seed_weights' = unseen_seed_weights
       /\ seed_staleness' = seed_staleness
       /\ next_seed_index' = next_seed_index
       /\ \A a \in 0 .. (num_actors - 1), s \in SeedIdx :
            LET ks == PartialCallsFor(log', a, s)
            IN  IF ks = {}
                THEN /\ partial_seed_scores'[a][s] = partial_seed_scores[a][s]
                     /\ partial_seed_steps'[a][s] = partial_seed_steps[a][s]
                ELSE \A k \in ks :
                       /\ Cardinality(ks) = 1
                       /\ partial_seed_scores'[a][s] =
                            MergedScore(partial_seed_scores[a][s], partial_seed_steps[a][s],
                                        log'[k].score, log'[k].num_steps)
                       /\ partial_seed_steps'[a][s] =
                            partial_seed_steps[a][s] + log'[k].num_steps]_vars

\* C17 witness: a partial update for (actor 0, seed 0) merged into a pending
\* partial of that pair, while actor 1 holds a pending partial for seed 0 too
\* and seed 1 has a score.
PartialUpdateFrameWitness ==
  /\ last.op = "update_with_rollouts" /\ last.ok /\ PartialUpdatesOnly(log)
  /\ PartialCallsFor(log, 0, 0) # {}
  /\ partial_seed_steps[0][0] > TotalSteps
  /\ partial_seed_steps[1][0] > 0
  /\ unseen_seed_weights[1] = 0

\* The orders in which the loop over actors can visit n columns.
ActorOrders(n) ==
  {order \in [1 .. n -> 0 .. (n - 1)] :
     \A i, j \in 1 .. n : i # j => order[i] # order[j]}

\* _update_with_rollouts with the columns visited in the given order.
RECURSIVE _update_with_rollouts_in_order(_, _, _)
_update_with_rollouts_in_order(self, rollouts, order) ==
  IF order = <<>> THEN self
  ELSE _update_with_rollouts_in_order(ActorLoop(self, rollouts, Head(order), 0, 0),
                                      rollouts, Tail(order))

\* C18 (Per-worker rows are disjoint): in every reachable state in which a
\* call can follow, and for every batch, processing the column of worker w
\* writes partial accumulators of row w only, and the partial accumulators
\* after update_with_rollouts are the same for every order in which the
\* columns are processed.
WorkerRowsDisjoint ==
  ncalls < MaxCalls =>
  \A rollouts \in Rollouts(num_actors) :
    /\ \A w \in 0 .. (num_actors - 1) :
         LET after == ActorLoop(Self, rollouts, w, 0, 0)
         IN  \A a \in 0 .. (num_actors - 1) :
               a # w => /\ after.partial_seed_scores[a] = partial_seed_scores[a]
                        /\ after.partial_seed_steps[a] = partial_seed_steps[a]
    /\ LET after == _update_with_rollouts(Self, rollouts)
       IN  \A order \in ActorOrders(num_actors) :
             LET other == _update_with_rollouts_in_order(Self, rollouts, order)
             IN  /\ other.partial_seed_scores = after.partial_seed_scores
                 /\ other.partial_seed_steps = after.partial_seed_steps

\* C18 witness: after an update_with_rollouts call both workers hold pending
\* partials with different scores, and there is a batch for which the order
\* of the columns changes seed_scores (so the order is observable elsewhere).
WorkerRowsDisjointWitness ==
  /\ last.op = "update_with_rollouts" /\ last.ok /\ ncalls < MaxCalls
  /\ \E s \in SeedIdx :
       /\ partial_seed_steps[0][s] > 0 /\ partial_seed_steps[1][s] > 0
       /\ partial_seed_scores[0][s] # partial_seed_scores[1][s]
  /\ \E rollouts \in Rollouts(num_actors) :
       _update_with_rollouts_in_order(Self, rollouts, <<1, 0>>).seed_scores
         # _update_with_rollouts(Self, rollouts).seed_scores

\* C19 (Sampling is read-only on scores): a sample() or sample_weights() call
\* leaves seed_scores, unseen and the partial accumulators as they were, for
\* every score transform and every staleness transform; so the seed_score of
\* a seed that was never finalized is 0.
SamplingReadOnly ==
  /\ [][last'.op \in {"sample", "sample_weights"} =>
          /\ seed_scores' = seed_scores
          /\ unseen_seed_weights' = unseen_seed_weights
          /\ partial_seed_scores' = partial_seed_scores
          /\ partial_seed_steps' = partial_seed_steps]_vars
  /\ [](\A s \in SeedIdx : s \notin (ever_done \cup ever_flushed) => seed_scores[s] = Zero)

\* The ledger calls of a handler replayed from the state it started in: every
\* merge has a strictly positive denominator partial_num_steps + num_steps.
RECURSIVE DenominatorsPositive(_, _, _)
DenominatorsPositive(self, calls, k) ==
  IF k > Len(calls) THEN TRUE
  ELSE LET c == calls[k]
           done == c.fn = "update_seed_score"
       IN  /\ self.partial_seed_steps[c.actor_index][c.seed_idx] + c.num_steps > 0
           /\ DenominatorsPositive(
                IF done
                THEN update_seed_score(self, c.actor_index, c.seed_idx, c.score, c.num_steps)
                ELSE _partial_update_seed_score(self, c.actor_index, c.seed_idx, c.score,
                                                c.num_steps, FALSE).self,
                calls, k + 1)

\* C20 (Accumulator consistency, no division by zero): in every reachable
\* state every partial step count is >= 0 and an accumulator with 0 steps has
\* score 0; every merge executed by update_with_rollouts and by after_update,
\* the zero-step flush included, divides by a strictly positive step count.
AccumulatorConsistency ==
  /\ [](\A a \in 0 .. (num_actors - 1), s \in SeedIdx :
          /\ partial_seed_steps[a][s] >= 0
          /\ partial_seed_steps[a][s] = 0 => partial_seed_scores[a][s] = Zero)
  /\ [][last'.op \in {"update_with_rollouts", "after_update"} =>
          DenominatorsPositive(Self, log', 1)]_vars

\* C20 witness: after_update has just flushed a pending partial of nonzero
\* score with a zero-step merge, and made no merge for some other accumulator.
AccumulatorConsistencyWitness ==
  /\ last.op = "after_update"
  /\ \E k \in DOMAIN log : log[k].num_steps = 0 /\ log[k].merged_score # Zero
  /\ Len(log) < num_actors * NumSeeds
  /\ ever_flushed # {}

====
